---- MODULE Spec2Model ----
(***************************************************************************)
(* Model of mediastream: the server lifecycle (Server.Start / Server.Stop  *)
(* / Server.IsRunning), the streaming loop (Server.handleStream), the      *)
(* three frame sources (imageSource, gifSource, videoSource) and the       *)
(* dispatcher media.Open.                                                  *)
(*                                                                         *)
(* The specifications that share the module:                               *)
(*   Spec       - API calls on one Server object, arbitrarily interleaved  *)
(*   SpecVideo  - NextFrame calls over a decoder byte stream               *)
(*   SpecStream - clients of /stream on one video source and its decoder   *)
(*                (SpecStreamFair: with fair scheduling)                   *)
(*   SpecStop   - SpecStream with a Stop call on the session               *)
(*                (SpecStopFair: with fair scheduling)                     *)
(*   SpecGif    - NextFrame calls on an animated source under a clock      *)
(*   SpecImage  - NextFrame calls on a static image source                 *)
(*   SpecOpen   - one call of media.Open                                   *)
(***************************************************************************)
EXTENDS Integers, Sequences, FiniteSets

\* ---------------------------------------------------------------- bounds
NumCalls == 3          \* API calls (goroutines) on the one Server object
MaxBody == 2           \* longest JPEG payload between the markers
MaxChunk == 4          \* most bytes one pipe Read hands back
MaxFrameCalls == 2     \* NextFrame calls made on the video source
MaxFrames == 3         \* frames of the animation
MaxDelay == 2          \* longest frame delay, in clock units
MaxTime == 5           \* the clock stops here
NumCallers == 2        \* concurrent callers of gifSource.NextFrame
MaxImageCalls == 3     \* NextFrame calls made on the image source
MaxCut == 2            \* bytes the decoder may fail to write at the end
NumClients == 2        \* streaming connections on the video source
NumStreamFrames == 3   \* frames the decoder writes while clients stream

\* ------------------------------------------------------ program constants
FF == 255
SOI == 216
EOI == 217

Nil == 0
Procs == 1..NumCalls
Callers == 1..NumCallers
Clients == 1..NumClients

VARIABLES
  \* Server (one session object)
  pc, op, ret,           \* per call: position, operation, return value
  started,               \* Server.started
  httpSrv,               \* Server.httpSrv: Nil or the call that created it
  cancel,                \* Server.cancel: Nil or the call that created ctx
  ctxCancelled,          \* per context: cancelled?
  inShutdown, listening, \* per http.Server object
  stopSrv,               \* Stop's local httpSrv
  closeRes, shutRes,     \* Stop's locals: results of Close and Shutdown
  portExternal,          \* the port is held by another program
  srcKind,               \* which Source the session owns
  stdoutClosed, procState, closeCalls,   \* the source's resources
  \* videoSource
  j1, j2,                \* the first two JPEGs the decoder writes
  vprefix, vcut,         \* bytes ahead of j1; bytes missing at the end
  towrite, wopen,        \* the decoder: bytes still to write; pipe open?
  pipe,                  \* bytes written by the decoder and not yet read
  vowner,                \* holder of videoSource.mu, or Nil
  cst, cctx,             \* per client: place in handleStream; ctx done?
  vto,                   \* the client each NextFrame result went to
  vpc,                   \* position inside NextFrame
  vframe,                \* NextFrame's local frame
  vout,                  \* results of the NextFrame calls, in order
  spc,                   \* position of the Stop call on a streaming session
  vclosed,               \* videoSource.Close has closed s.stdout
  \* gifSource
  gopen,                 \* newGIFSource returned a source
  frames, index, lastAt, \* gifSource fields
  now,                   \* the wall clock
  gret, gcaller,         \* last NextFrame result and who got it
  \* imageSource
  iframe,                \* imageSource.frame
  iowner,                \* holder of imageSource.mu, or Nil
  ilog,                  \* results of the NextFrame calls, in order
  \* media.Open
  opath, oenv,           \* the path given to Open, and what it finds
  ores                   \* Open's result: <<>> before the call, then <<r>>

srvVars == <<pc, op, ret, started, httpSrv, cancel, ctxCancelled, inShutdown,
             listening, stopSrv, closeRes, shutRes, portExternal, srcKind,
             stdoutClosed, procState, closeCalls>>
vidVars == <<j1, j2, vprefix, vcut, towrite, wopen, pipe, vowner, cst, cctx,
             vto, vpc, vframe, vout, spc, vclosed>>
gifVars == <<gopen, frames, index, lastAt, now, gret, gcaller>>
imgVars == <<iframe, iowner, ilog>>
openVars == <<opath, oenv, ores>>
vars == <<srvVars, vidVars, gifVars, imgVars, openVars>>

\* ============================================================== Server
SourceKinds == {"image", "gif", "video"}

\* server.New: a session that owns an open source and was never started
ServerNew ==
  /\ pc = [p \in Procs |-> "Idle"]
  /\ op = [p \in Procs |-> "none"]
  /\ ret = [p \in Procs |-> "none"]
  /\ started = FALSE
  /\ httpSrv = Nil
  /\ cancel = Nil
  /\ ctxCancelled = [p \in Procs |-> FALSE]
  /\ inShutdown = [p \in Procs |-> FALSE]
  /\ listening = [p \in Procs |-> FALSE]
  /\ stopSrv = [p \in Procs |-> Nil]
  /\ closeRes = [p \in Procs |-> "none"]
  /\ shutRes = [p \in Procs |-> "none"]
  /\ stdoutClosed = FALSE
  /\ procState = "running"
  /\ closeCalls = 0

\* Server.IsRunning
IsRunning == started

\* net.Listen on the configured port fails while something holds it
PortInUse == portExternal \/ \E q \in Procs : listening[q]

\* GET /health is answered by handleHealth when a listener of the session
\* accepts on the port
HealthServed == \E q \in Procs : listening[q]

srcVars == <<stdoutClosed, procState, closeCalls>>
objVars == <<ctxCancelled, inShutdown, listening, portExternal, srcKind>>

\* Start without the running check: every call installs a new server
StartLocked_NoCheck(p) ==
  /\ pc[p] = "Idle"
  /\ op' = [op EXCEPT ![p] = "Start"]
  /\ started' = TRUE
  /\ cancel' = p
  /\ httpSrv' = p
  /\ pc' = [pc EXCEPT ![p] = "StartListen"]
  /\ UNCHANGED ret
  /\ UNCHANGED <<objVars, srcVars, stopSrv, closeRes, shutRes>>
  /\ UNCHANGED <<vidVars, gifVars, imgVars, openVars>>

\* Start, lines 121-142: the critical section under s.mu
StartLocked(p) ==
  /\ pc[p] = "Idle"
  /\ op' = [op EXCEPT ![p] = "Start"]
  /\ IF started
       THEN /\ pc' = [pc EXCEPT ![p] = "Done"]
            /\ ret' = [ret EXCEPT ![p] = "AlreadyRunning"]
            /\ UNCHANGED <<started, cancel, httpSrv>>
       ELSE /\ started' = TRUE
            /\ cancel' = p
            /\ httpSrv' = p
            /\ pc' = [pc EXCEPT ![p] = "StartListen"]
            /\ UNCHANGED ret
  /\ UNCHANGED <<objVars, srcVars, stopSrv, closeRes, shutRes>>
  /\ UNCHANGED <<vidVars, gifVars, imgVars, openVars>>

\* Start, line 144: ListenAndServe refuses a server already shut down,
\* fails when the port is taken, and otherwise binds and serves
StartListenAndServe(p) ==
  /\ pc[p] = "StartListen"
  /\ IF inShutdown[p]
       THEN /\ pc' = [pc EXCEPT ![p] = "Done"]
            /\ ret' = [ret EXCEPT ![p] = "ErrServerClosed"]
            /\ UNCHANGED listening
       ELSE IF PortInUse
         THEN /\ pc' = [pc EXCEPT ![p] = "Done"]
              /\ ret' = [ret EXCEPT ![p] = "ListenFailure"]
              /\ UNCHANGED listening
         ELSE /\ listening' = [listening EXCEPT ![p] = TRUE]
              /\ pc' = [pc EXCEPT ![p] = "StartServing"]
              /\ UNCHANGED ret
  /\ UNCHANGED <<op, started, httpSrv, cancel, ctxCancelled, inShutdown,
                 stopSrv, closeRes, shutRes, portExternal, srcKind, srcVars>>
  /\ UNCHANGED <<vidVars, gifVars, imgVars, openVars>>

\* Start, line 144: the blocked ListenAndServe returns once the server has
\* been shut down
StartServeReturn(p) ==
  /\ pc[p] = "StartServing"
  /\ inShutdown[p]
  /\ pc' = [pc EXCEPT ![p] = "Done"]
  /\ ret' = [ret EXCEPT ![p] = "ErrServerClosed"]
  /\ UNCHANGED <<op, started, httpSrv, cancel, objVars, srcVars, stopSrv,
                 closeRes, shutRes>>
  /\ UNCHANGED <<vidVars, gifVars, imgVars, openVars>>

\* Stop without the early return: cleanup runs whether or not started
StopLocked_NoEarlyReturn(p) ==
  /\ pc[p] = "Idle"
  /\ op' = [op EXCEPT ![p] = "Stop"]
  /\ started' = FALSE
  /\ ctxCancelled' = IF cancel # Nil
                       THEN [ctxCancelled EXCEPT ![cancel] = TRUE]
                       ELSE ctxCancelled
  /\ stopSrv' = [stopSrv EXCEPT ![p] = httpSrv]
  /\ pc' = [pc EXCEPT ![p] = IF httpSrv = Nil THEN "Done" ELSE "StopClose"]
  /\ ret' = [ret EXCEPT ![p] = IF httpSrv = Nil THEN "ok" ELSE ret[p]]
  /\ UNCHANGED <<httpSrv, cancel, inShutdown, listening, portExternal,
                 srcKind, srcVars, closeRes, shutRes>>
  /\ UNCHANGED <<vidVars, gifVars, imgVars, openVars>>

\* Stop that leaves the flag for the end of a successful cleanup: the
\* critical section no longer clears started
StopLocked_KeepRunning(p) ==
  /\ pc[p] = "Idle"
  /\ op' = [op EXCEPT ![p] = "Stop"]
  /\ IF ~started
       THEN /\ pc' = [pc EXCEPT ![p] = "Done"]
            /\ ret' = [ret EXCEPT ![p] = "ok"]
            /\ UNCHANGED <<ctxCancelled, stopSrv>>
       ELSE /\ ctxCancelled' = IF cancel # Nil
                                 THEN [ctxCancelled EXCEPT ![cancel] = TRUE]
                                 ELSE ctxCancelled
            /\ stopSrv' = [stopSrv EXCEPT ![p] = httpSrv]
            /\ pc' = [pc EXCEPT ![p] = "StopClose"]
            /\ UNCHANGED ret
  /\ UNCHANGED <<started, httpSrv, cancel, inShutdown, listening,
                 portExternal, srcKind, srcVars, closeRes, shutRes>>
  /\ UNCHANGED <<vidVars, gifVars, imgVars, openVars>>

\* Stop that goes on to the cleanup without calling s.cancel
StopLocked_NoCancel(p) ==
  /\ pc[p] = "Idle"
  /\ op' = [op EXCEPT ![p] = "Stop"]
  /\ IF ~started
       THEN /\ pc' = [pc EXCEPT ![p] = "Done"]
            /\ ret' = [ret EXCEPT ![p] = "ok"]
            /\ UNCHANGED <<started, stopSrv>>
       ELSE /\ started' = FALSE
            /\ stopSrv' = [stopSrv EXCEPT ![p] = httpSrv]
            /\ pc' = [pc EXCEPT ![p] = "StopClose"]
            /\ UNCHANGED ret
  /\ UNCHANGED <<httpSrv, cancel, ctxCancelled, inShutdown, listening,
                 portExternal, srcKind, srcVars, closeRes, shutRes>>
  /\ UNCHANGED <<vidVars, gifVars, imgVars, openVars>>

\* Stop, lines 149-162: the critical section under s.mu
StopLocked(p) ==
  /\ pc[p] = "Idle"
  /\ op' = [op EXCEPT ![p] = "Stop"]
  /\ IF ~started
       THEN /\ pc' = [pc EXCEPT ![p] = "Done"]
            /\ ret' = [ret EXCEPT ![p] = "ok"]
            /\ UNCHANGED <<started, ctxCancelled, stopSrv>>
       ELSE /\ started' = FALSE
            /\ ctxCancelled' = IF cancel # Nil
                                 THEN [ctxCancelled EXCEPT ![cancel] = TRUE]
                                 ELSE ctxCancelled
            /\ stopSrv' = [stopSrv EXCEPT ![p] = httpSrv]
            /\ pc' = [pc EXCEPT ![p] = "StopClose"]
            /\ UNCHANGED ret
  /\ UNCHANGED <<httpSrv, cancel, inShutdown, listening, portExternal,
                 srcKind, srcVars, closeRes, shutRes>>
  /\ UNCHANGED <<vidVars, gifVars, imgVars, openVars>>

\* Source.Close with result res.  imageSource and gifSource: a no-op that
\* returns nil.  videoSource: closes the pipe and kills the process; Kill
\* on a process that is no longer running succeeds or fails, by platform.
SourceClose(res) ==
  /\ closeCalls' = closeCalls + 1
  /\ IF srcKind = "video"
       THEN /\ stdoutClosed' = TRUE
            /\ IF procState = "running"
                 THEN procState' = "killed" /\ res = "ok"
                 ELSE UNCHANGED procState
       ELSE res = "ok" /\ UNCHANGED <<stdoutClosed, procState>>

\* Stop, lines 167-169: close the source; an error returns at once
StopClose(p) ==
  /\ pc[p] = "StopClose"
  /\ \E res \in {"ok", "err"} :
       /\ SourceClose(res)
       /\ closeRes' = [closeRes EXCEPT ![p] = res]
       /\ IF res = "err"
            THEN /\ pc' = [pc EXCEPT ![p] = "Done"]
                 /\ ret' = [ret EXCEPT ![p] = "CloseFault"]
            ELSE /\ pc' = [pc EXCEPT ![p] = "StopShutdown"]
                 /\ UNCHANGED ret
  /\ UNCHANGED <<op, started, httpSrv, cancel, objVars, stopSrv, shutRes>>
  /\ UNCHANGED <<vidVars, gifVars, imgVars, openVars>>

\* Stop, line 170: Shutdown closes the listeners, marks the server shut
\* down, and reports a listener-close error or the 3 s deadline
StopShutdown(p) ==
  /\ pc[p] = "StopShutdown"
  /\ inShutdown' = [inShutdown EXCEPT ![stopSrv[p]] = TRUE]
  /\ listening' = [listening EXCEPT ![stopSrv[p]] = FALSE]
  /\ \E res \in {"ok", "err"} :
       /\ shutRes' = [shutRes EXCEPT ![p] = res]
       /\ ret' = [ret EXCEPT ![p] = IF res = "ok" THEN "ok"
                                                  ELSE "ShutdownFault"]
  /\ pc' = [pc EXCEPT ![p] = "Done"]
  /\ UNCHANGED <<op, started, httpSrv, cancel, ctxCancelled, portExternal,
                 srcKind, srcVars, stopSrv, closeRes>>
  /\ UNCHANGED <<vidVars, gifVars, imgVars, openVars>>

\* the FFmpeg process exits on its own (crash, undecodable input)
DecoderExit ==
  /\ srcKind = "video"
  /\ procState = "running"
  /\ procState' = "exited"
  /\ UNCHANGED <<pc, op, ret, started, httpSrv, cancel, objVars, stopSrv,
                 closeRes, shutRes, stdoutClosed, closeCalls>>
  /\ UNCHANGED <<vidVars, gifVars, imgVars, openVars>>

\* ========================================================= videoSource
\* a complete JPEG: start marker, payload, end marker.  The payload holds
\* no end marker (0xFF is followed by 0x00 or by further 0xFF fill bytes).
Bodies == UNION {[1..n -> {0, FF}] : n \in 0..MaxBody}
Jpeg(body) == <<FF, SOI>> \o body \o <<FF, EOI>>

\* bytes.Index: 0-based position of the first occurrence of pat, or -1
IndexOf(s, pat) ==
  LET hits == {i \in 0..(Len(s) - Len(pat)) :
                 SubSeq(s, i + 1, i + Len(pat)) = pat}
  IN IF hits = {} THEN -1
     ELSE CHOOSE i \in hits : \A k \in hits : i <= k

Min(a, b) == IF a <= b THEN a ELSE b

FrameOk(data) == [ok |-> TRUE, data |-> data]
FrameErr == [ok |-> FALSE, data |-> <<>>]

\* bytes that may precede the first start marker
Prefixes == {<<>>, <<0>>, <<FF>>, <<FF, 0>>}

\* the stream without its last n bytes
CutTail(str, n) == SubSeq(str, 1, Len(str) - n)

\* the first n JPEGs of a stream whose k-th frame has the payload <<k>>
RECURSIVE StreamFrames(_)
StreamFrames(n) ==
  IF n = 0 THEN <<>> ELSE StreamFrames(n - 1) \o Jpeg(<<n>>)

\* no client is streaming and nobody is inside NextFrame
NoCalls ==
  /\ vowner = Nil
  /\ cst = [c \in Clients |-> "Select"]
  /\ cctx = [c \in Clients |-> FALSE]
  /\ vto = <<>>
  /\ vpc = "Idle"
  /\ vframe = <<>>
  /\ vout = <<>>
  /\ spc = "Idle"
  /\ vclosed = FALSE

\* newVideoSource + spawn: the decoder wrote, after some prefix, two
\* back-to-back JPEGs but for the last vcut bytes, and has exited
NewVideoSource ==
  /\ j1 \in {Jpeg(b) : b \in Bodies}
  /\ j2 \in {Jpeg(b) : b \in Bodies}
  /\ vprefix \in Prefixes
  /\ vcut \in 0..MaxCut
  /\ pipe = CutTail(vprefix \o j1 \o j2, vcut)
  /\ towrite = <<>>
  /\ wopen = FALSE
  /\ NoCalls

\* newVideoSource + spawn: the decoder is running and has written nothing
\* yet of its NumStreamFrames frames
NewVideoStream ==
  /\ j1 = Jpeg(<<1>>)
  /\ j2 = Jpeg(<<2>>)
  /\ vprefix = <<>>
  /\ vcut = 0
  /\ pipe = <<>>
  /\ towrite = StreamFrames(NumStreamFrames)
  /\ wopen = TRUE
  /\ NoCalls

inputVars == <<j1, j2, vprefix, vcut>>
decVars == <<towrite, wopen>>
stopVars == <<spc, vclosed>>

\* NextFrame called again and again restarts the decoder's output
NextFrameEnter_Respawn(c) ==
  /\ vpc = "Idle"
  /\ cst[c] = "Pull"
  /\ vowner' = c
  /\ vpc' = "ReadFF"
  /\ vframe' = <<>>
  /\ pipe' = <<>>
  /\ towrite' = StreamFrames(NumStreamFrames)
  /\ UNCHANGED <<inputVars, wopen, cst, cctx, vto, vout>>
  /\ UNCHANGED <<stopVars, srvVars, gifVars, imgVars, openVars>>

\* NextFrame, lines 297-299: client c, at line 206 of handleStream, takes
\* the source lock
NextFrameEnter(c) ==
  /\ vpc = "Idle"
  /\ cst[c] = "Pull"
  /\ vowner' = c
  /\ vpc' = "ReadFF"
  /\ vframe' = <<>>
  /\ UNCHANGED <<inputVars, decVars, pipe, cst, cctx, vto, vout>>
  /\ UNCHANGED <<stopVars, srvVars, gifVars, imgVars, openVars>>

\* NextFrame returns res and releases the lock; handleStream, lines
\* 207-216, ends the loop on an error and otherwise writes the frame to
\* its client and goes back to the select
NextFrameReturn(res) ==
  /\ vout' = Append(vout, res)
  /\ vto' = Append(vto, vowner)
  /\ vpc' = "Idle"
  /\ vowner' = Nil
  /\ cst' = [cst EXCEPT ![vowner] = IF res.ok THEN "Select" ELSE "Exited"]

\* a read on the pipe returns: there are bytes, or the decoder has closed
\* its end (then the read fails); otherwise the read blocks
ReadReturns == pipe # <<>> \/ ~wopen

\* NextFrame, lines 303-310: readByte, looking for 0xFF
NextFrameReadFF ==
  /\ vpc = "ReadFF"
  /\ ReadReturns
  /\ IF pipe = <<>>
       THEN /\ NextFrameReturn(FrameErr)
            /\ UNCHANGED pipe
       ELSE /\ pipe' = Tail(pipe)
            /\ vpc' = IF Head(pipe) # FF THEN "ReadFF" ELSE "ReadSOI"
            /\ UNCHANGED <<vout, vto, vowner, cst>>
  /\ UNCHANGED <<inputVars, decVars, cctx, vframe>>
  /\ UNCHANGED <<stopVars, srvVars, gifVars, imgVars, openVars>>

\* NextFrame, lines 311-320: readByte, expecting 0xD8 after the 0xFF
NextFrameReadSOI ==
  /\ vpc = "ReadSOI"
  /\ ReadReturns
  /\ IF pipe = <<>>
       THEN /\ NextFrameReturn(FrameErr)
            /\ UNCHANGED <<pipe, vframe>>
       ELSE /\ pipe' = Tail(pipe)
            /\ IF Head(pipe) # SOI
                 THEN vpc' = "ReadFF" /\ UNCHANGED vframe
                 ELSE vpc' = "ReadBody" /\ vframe' = <<FF, SOI>>
            /\ UNCHANGED <<vout, vto, vowner, cst>>
  /\ UNCHANGED <<inputVars, decVars, cctx>>
  /\ UNCHANGED <<stopVars, srvVars, gifVars, imgVars, openVars>>

\* NextFrame whose body loop hands back what it has when the stream ends
NextFrameReadBody_PartialAtEOF ==
  /\ vpc = "ReadBody"
  /\ ReadReturns
  /\ IF pipe = <<>>
       THEN /\ NextFrameReturn(FrameOk(vframe))
            /\ UNCHANGED <<pipe, vframe>>
       ELSE \E n \in 1..Min(MaxChunk, Len(pipe)) :
              LET got == vframe \o SubSeq(pipe, 1, n)
                  idx == IndexOf(got, <<FF, EOI>>)
              IN /\ pipe' = SubSeq(pipe, n + 1, Len(pipe))
                 /\ IF idx >= 0
                      THEN /\ NextFrameReturn(
                                FrameOk(SubSeq(got, 1, idx + 2)))
                           /\ vframe' = <<>>
                      ELSE /\ vframe' = got
                           /\ UNCHANGED <<vout, vto, vowner, cst, vpc>>
  /\ UNCHANGED <<inputVars, decVars, cctx>>
  /\ UNCHANGED <<stopVars, srvVars, gifVars, imgVars, openVars>>

\* NextFrame, lines 321-334: one Read of up to a chunk, appended to frame;
\* the call returns frame[:idx+2] once frame holds an end marker
NextFrameReadBody ==
  /\ vpc = "ReadBody"
  /\ ReadReturns
  /\ IF pipe = <<>>
       THEN /\ NextFrameReturn(FrameErr)
            /\ UNCHANGED <<pipe, vframe>>
       ELSE \E n \in 1..Min(MaxChunk, Len(pipe)) :
              LET got == vframe \o SubSeq(pipe, 1, n)
                  idx == IndexOf(got, <<FF, EOI>>)
              IN /\ pipe' = SubSeq(pipe, n + 1, Len(pipe))
                 /\ IF idx >= 0
                      THEN /\ NextFrameReturn(
                                FrameOk(SubSeq(got, 1, idx + 2)))
                           /\ vframe' = <<>>
                      ELSE /\ vframe' = got
                           /\ UNCHANGED <<vout, vto, vowner, cst, vpc>>
  /\ UNCHANGED <<inputVars, decVars, cctx>>
  /\ UNCHANGED <<stopVars, srvVars, gifVars, imgVars, openVars>>

\* ======================================================== handleStream
\* calls of NextFrame begun so far
CallsBegun == Len(vout) + Cardinality({c \in Clients : cst[c] = "Pull"})

\* handleStream whose select has no Done case
StreamSelectDone_NoReturn(c) ==
  /\ cst[c] = "Select"
  /\ cctx[c]
  /\ UNCHANGED <<vidVars, srvVars, gifVars, imgVars, openVars>>

\* handleStream, lines 202-204: the select takes the Done case
StreamSelectDone(c) ==
  /\ cst[c] = "Select"
  /\ cctx[c]
  /\ cst' = [cst EXCEPT ![c] = "Exited"]
  /\ UNCHANGED <<inputVars, decVars, pipe, vowner, cctx, vto, vpc, vframe,
                 vout>>
  /\ UNCHANGED <<stopVars, srvVars, gifVars, imgVars, openVars>>

\* handleStream, lines 202 and 205: the select takes the ticker case, and
\* the loop is about to call NextFrame
StreamSelectTick(c) ==
  /\ cst[c] = "Select"
  /\ CallsBegun < MaxFrameCalls
  /\ cst' = [cst EXCEPT ![c] = "Pull"]
  /\ UNCHANGED <<inputVars, decVars, pipe, vowner, cctx, vto, vpc, vframe,
                 vout>>
  /\ UNCHANGED <<stopVars, srvVars, gifVars, imgVars, openVars>>

\* the client of connection c goes away: its request context is cancelled
ClientDisconnect(c) ==
  /\ cst[c] # "Exited"
  /\ ~cctx[c]
  /\ cctx' = [cctx EXCEPT ![c] = TRUE]
  /\ UNCHANGED <<inputVars, decVars, pipe, vowner, cst, vto, vpc, vframe,
                 vout>>
  /\ UNCHANGED <<stopVars, srvVars, gifVars, imgVars, openVars>>

\* the decoder writes some of its output into the pipe
DecoderWrite ==
  /\ wopen
  /\ towrite # <<>>
  /\ \E n \in 1..Min(MaxChunk, Len(towrite)) :
       /\ pipe' = pipe \o SubSeq(towrite, 1, n)
       /\ towrite' = SubSeq(towrite, n + 1, Len(towrite))
  /\ UNCHANGED <<inputVars, wopen, vowner, cst, cctx, vto, vpc, vframe,
                 vout>>
  /\ UNCHANGED <<stopVars, srvVars, gifVars, imgVars, openVars>>

\* the decoder exits and its end of the pipe closes
DecoderClosePipe ==
  /\ wopen
  /\ wopen' = FALSE
  /\ UNCHANGED <<inputVars, towrite, pipe, vowner, cst, cctx, vto, vpc,
                 vframe, vout>>
  /\ UNCHANGED <<stopVars, srvVars, gifVars, imgVars, openVars>>

\* Stop on the running session the clients stream from, lines 149-162:
\* s.cancel() cancels the base context, and with it the context of every
\* request
StreamStopLocked ==
  /\ spc = "Idle"
  /\ cctx' = [c \in Clients |-> TRUE]
  /\ spc' = "Close"
  /\ UNCHANGED <<inputVars, decVars, pipe, vowner, cst, vto, vpc, vframe,
                 vout, vclosed>>
  /\ UNCHANGED <<srvVars, gifVars, imgVars, openVars>>

\* Stop, line 167, and videoSource.Close, lines 339-350: once it has the
\* source lock, Close closes s.stdout (what the decoder wrote and nobody
\* read is gone, and a read fails from now on) and kills the process.  The
\* kill of a process that had already exited may fail, and then Stop
\* returns at line 168.
StreamStopClose ==
  /\ spc = "Close"
  /\ vowner = Nil
  /\ vclosed' = TRUE
  /\ pipe' = <<>>
  /\ wopen' = FALSE
  /\ \/ spc' = "Shutdown"
     \/ ~wopen /\ spc' = "Done"
  /\ UNCHANGED <<inputVars, towrite, vowner, cst, cctx, vto, vpc, vframe,
                 vout>>
  /\ UNCHANGED <<srvVars, gifVars, imgVars, openVars>>

\* Stop, line 170: Shutdown returns when the connections are idle or the
\* 3 s deadline has passed
StreamStopShutdown ==
  /\ spc = "Shutdown"
  /\ spc' = "Done"
  /\ UNCHANGED <<inputVars, decVars, pipe, vowner, cst, cctx, vto, vpc,
                 vframe, vout, vclosed>>
  /\ UNCHANGED <<srvVars, gifVars, imgVars, openVars>>

\* =========================================================== gifSource
\* newGIFSource, lines 44-60: one gifFrame per decoded image, every delay
\* positive (a zero delay is replaced by the fallback)
FrameSeqs ==
  UNION {{[i \in 1..n |-> [data |-> i, delay |-> d[i]]] :
            d \in [1..n -> 1..MaxDelay]} : n \in 0..MaxFrames}

\* newGIFSource: a decoded GIF without images is refused (lines 40-42);
\* otherwise index 0 and lastAt = construction time
NewGIFSource ==
  /\ frames \in FrameSeqs
  /\ gopen = (Len(frames) # 0)
  /\ index = 0
  /\ lastAt = 0
  /\ now = 0
  /\ gret = Nil
  /\ gcaller = Nil

\* NextFrame that advances the index without wrapping it
GifNextFrame_NoWrap(c) ==
  LET frame == frames[index + 1]
  IN /\ gopen
     /\ index < Len(frames)
     /\ IF now - lastAt >= frame.delay
          THEN /\ index' = index + 1
               /\ \E dt \in {0, 1} :
                    /\ now + dt <= MaxTime
                    /\ now' = now + dt
                    /\ lastAt' = now + dt
          ELSE UNCHANGED <<index, lastAt, now>>
     /\ gret' = frame.data
     /\ gcaller' = c
     /\ UNCHANGED <<gopen, frames>>
     /\ UNCHANGED <<srvVars, vidVars, imgVars, openVars>>

\* NextFrame that compares the clock, not the elapsed time, to the delay
GifNextFrame_NoElapsed(c) ==
  LET frame == frames[index + 1]
  IN /\ gopen
     /\ IF now >= frame.delay
          THEN /\ index' = (index + 1) % Len(frames)
               /\ \E dt \in {0, 1} :
                    /\ now + dt <= MaxTime
                    /\ now' = now + dt
                    /\ lastAt' = now + dt
          ELSE UNCHANGED <<index, lastAt, now>>
     /\ gret' = frame.data
     /\ gcaller' = c
     /\ UNCHANGED <<gopen, frames>>
     /\ UNCHANGED <<srvVars, vidVars, imgVars, openVars>>

\* NextFrame that catches up with the clock: after a gap of twice the
\* frame's delay it advances by two frames
GifNextFrame_CatchUp(c) ==
  LET frame == frames[index + 1]
  IN /\ gopen
     /\ IF now - lastAt >= frame.delay
          THEN /\ index' = IF now - lastAt >= 2 * frame.delay
                             THEN (index + 2) % Len(frames)
                             ELSE (index + 1) % Len(frames)
               /\ \E dt \in {0, 1} :
                    /\ now + dt <= MaxTime
                    /\ now' = now + dt
                    /\ lastAt' = now + dt
          ELSE UNCHANGED <<index, lastAt, now>>
     /\ gret' = frame.data
     /\ gcaller' = c
     /\ UNCHANGED <<gopen, frames>>
     /\ UNCHANGED <<srvVars, vidVars, imgVars, openVars>>

\* gifSource.NextFrame, lines 68-78, for caller c, all under s.mu.  The
\* clock is read twice (time.Since, time.Now) and may move in between.
GifNextFrame(c) ==
  LET frame == frames[index + 1]
  IN /\ gopen
     /\ IF now - lastAt >= frame.delay
          THEN /\ index' = (index + 1) % Len(frames)
               /\ \E dt \in {0, 1} :
                    /\ now + dt <= MaxTime
                    /\ now' = now + dt
                    /\ lastAt' = now + dt
          ELSE UNCHANGED <<index, lastAt, now>>
     /\ gret' = frame.data
     /\ gcaller' = c
     /\ UNCHANGED <<gopen, frames>>
     /\ UNCHANGED <<srvVars, vidVars, imgVars, openVars>>

\* wall-clock time passes
Tick ==
  /\ now < MaxTime
  /\ now' = now + 1
  /\ UNCHANGED <<gopen, frames, index, lastAt, gret, gcaller>>
  /\ UNCHANGED <<srvVars, vidVars, imgVars, openVars>>

\* ========================================================= imageSource
\* newImageSource: the image re-encoded as one JPEG buffer
NewImageSource ==
  /\ iframe \in {Jpeg(b) : b \in Bodies}
  /\ iowner = Nil
  /\ ilog = <<>>

\* imageSource.NextFrame, line 44: caller c takes s.mu
ImageNextFrameLock(c) ==
  /\ iowner = Nil
  /\ Len(ilog) < MaxImageCalls
  /\ iowner' = c
  /\ UNCHANGED <<iframe, ilog>>
  /\ UNCHANGED <<srvVars, vidVars, gifVars, openVars>>

\* NextFrame that hands out the buffer and consumes it, as a reader would
ImageNextFrameReturn_Consume(c) ==
  /\ iowner = c
  /\ ilog' = Append(ilog, [by |-> c, data |-> iframe])
  /\ iframe' = Tail(iframe)
  /\ iowner' = Nil
  /\ UNCHANGED <<srvVars, vidVars, gifVars, openVars>>

\* imageSource.NextFrame, lines 45-46: return s.frame and release s.mu
ImageNextFrameReturn(c) ==
  /\ iowner = c
  /\ ilog' = Append(ilog, [by |-> c, data |-> iframe])
  /\ iowner' = Nil
  /\ UNCHANGED iframe
  /\ UNCHANGED <<srvVars, vidVars, gifVars, openVars>>

\* ========================================================== media.Open
\* strings are sequences of character codes
\* SupportedExtensions, media.go lines 24-29
SupportedExtensions == <<
  <<46, 106, 112, 103>>,   \* .jpg
  <<46, 106, 112, 101, 103>>,   \* .jpeg
  <<46, 112, 110, 103>>,   \* .png
  <<46, 119, 101, 98, 112>>,   \* .webp
  <<46, 98, 109, 112>>,   \* .bmp
  <<46, 103, 105, 102>>,   \* .gif
  <<46, 109, 112, 52>>,   \* .mp4
  <<46, 109, 107, 118>>,   \* .mkv
  <<46, 109, 111, 118>>,   \* .mov
  <<46, 97, 118, 105>>,   \* .avi
  <<46, 119, 101, 98, 109>>,   \* .webm
  <<46, 102, 108, 118>>,   \* .flv
  <<46, 116, 115>>,   \* .ts
  <<46, 109, 52, 118>>   \* .m4v
>>

\* the case lists of Open's switch, media.go lines 37, 39 and 41
ImageCase == {
  <<46, 106, 112, 103>>,   \* .jpg
  <<46, 106, 112, 101, 103>>,   \* .jpeg
  <<46, 112, 110, 103>>,   \* .png
  <<46, 119, 101, 98, 112>>,   \* .webp
  <<46, 98, 109, 112>>   \* .bmp
}

GifCase == {
  <<46, 103, 105, 102>>   \* .gif
}

VideoCase == {
  <<46, 109, 112, 52>>,   \* .mp4
  <<46, 109, 107, 118>>,   \* .mkv
  <<46, 109, 111, 118>>,   \* .mov
  <<46, 97, 118, 105>>,   \* .avi
  <<46, 119, 101, 98, 109>>,   \* .webm
  <<46, 102, 108, 118>>,   \* .flv
  <<46, 116, 115>>,   \* .ts
  <<46, 109, 52, 118>>   \* .m4v
}

\* extensions Open is tried on beyond the published ones
OtherExtensions == {
  <<>>,   \* (none)
  <<46, 120, 121, 122>>,   \* .xyz
  <<46, 106, 112, 103, 120>>,   \* .jpgx
  <<46, 109, 112, 51>>,   \* .mp3
  <<46, 106, 112>>   \* .jp
}

\* what precedes the extension: a plain name, a directory with a dot in
\* its name, a name with an inner dot
Stems == {
  <<97>>,   \* a
  <<100, 46, 120, 47, 102>>,   \* d.x/f
  <<97, 46, 98>>   \* a.b
}

\* strings.ToLower on ASCII: 'A'..'Z' (65..90) move to 'a'..'z'
ToLower(str) ==
  [i \in 1..Len(str) |-> IF str[i] >= 65 /\ str[i] <= 90
                           THEN str[i] + 32 ELSE str[i]]

\* the extension as a user may type it: the letters at the positions in
\* mask in upper case
Typed(str, mask) ==
  [i \in 1..Len(str) |-> IF i \in mask /\ str[i] >= 97 /\ str[i] <= 122
                           THEN str[i] - 32 ELSE str[i]]

\* filepath.Ext: the suffix from the last '.' (46) of the last path
\* element, empty when that element has no dot ('/' is 47)
Ext(path) ==
  LET dots == {i \in 1..Len(path) :
                 /\ path[i] = 46
                 /\ \A k \in i..Len(path) : path[k] # 47}
  IN IF dots = {} THEN <<>>
     ELSE SubSeq(path, CHOOSE i \in dots : \A k \in dots : k <= i, Len(path))

OpenResult(err, src, ctor) == [err |-> err, src |-> src, ctor |-> ctor]

\* newImageSource, part_001 lines 23-41
newImageSource(env) ==
  IF ~env.exists THEN OpenResult("FileOpenFailure", "none", "image")
  ELSE IF ~env.decodes THEN OpenResult("DecodeFailure", "none", "image")
  ELSE OpenResult("none", "image", "image")

\* newGIFSource, part_000 lines 29-63
newGIFSource(env) ==
  IF ~env.exists THEN OpenResult("FileOpenFailure", "none", "gif")
  ELSE IF ~env.decodes THEN OpenResult("DecodeFailure", "none", "gif")
  ELSE IF env.images = 0 THEN OpenResult("NoFrames", "none", "gif")
  ELSE OpenResult("none", "gif", "gif")

\* newVideoSource and spawn, part_002 lines 251-292: FFmpeg is looked up
\* and started; the input file is not consulted
newVideoSource(env) ==
  IF ~env.ffmpeg THEN OpenResult("DecoderUnavailable", "none", "video")
  ELSE IF ~env.starts THEN OpenResult("SpawnFailure", "none", "video")
  ELSE OpenResult("none", "video", "video")

\* Open without strings.ToLower
Open_NoLower(path, env) ==
  LET ext == Ext(path)
  IN IF ext \in ImageCase THEN newImageSource(env)
     ELSE IF ext \in GifCase THEN newGIFSource(env)
     ELSE IF ext \in VideoCase THEN newVideoSource(env)
     ELSE OpenResult("UnsupportedFormat", "none", "none")

\* Open, media.go lines 33-49
Open(path, env) ==
  LET ext == ToLower(Ext(path))
  IN IF ext \in ImageCase THEN newImageSource(env)
     ELSE IF ext \in GifCase THEN newGIFSource(env)
     ELSE IF ext \in VideoCase THEN newVideoSource(env)
     ELSE OpenResult("UnsupportedFormat", "none", "none")

\* a path and the file system, decoder and PATH that Open will find.
\* env.ext is the extension of the path in lower case, as it was chosen.
OpenInputs ==
  /\ \E stem \in Stems :
     \E e \in {SupportedExtensions[i] : i \in 1..Len(SupportedExtensions)}
                \cup OtherExtensions :
     \E mask \in {{}, {2}, 1..Len(e)} :
     \E ex, dec, ff, st \in BOOLEAN :
     \E n \in 0..1 :
       /\ e = <<>> => stem = <<97>>
       /\ opath = stem \o Typed(e, mask)
       /\ oenv = [ext |-> e, exists |-> ex, decodes |-> dec, images |-> n,
                  ffmpeg |-> ff, starts |-> st]
  /\ ores = <<>>

\* one call of media.Open
OpenCall ==
  /\ ores = <<>>
  /\ ores' = <<Open(opath, oenv)>>
  /\ UNCHANGED <<opath, oenv>>
  /\ UNCHANGED <<srvVars, vidVars, gifVars, imgVars>>

\* ====================================================== specifications
\* the parts a specification does not exercise stay as constructed
IdleServer ==
  /\ ServerNew
  /\ portExternal = FALSE
  /\ srcKind = "image"

IdleVideo ==
  /\ j1 = Jpeg(<<>>)
  /\ j2 = Jpeg(<<>>)
  /\ vprefix = <<>>
  /\ vcut = 0
  /\ pipe = j1 \o j2
  /\ towrite = <<>>
  /\ wopen = FALSE
  /\ NoCalls

IdleGif ==
  /\ frames = <<[data |-> 1, delay |-> 1]>>
  /\ gopen = TRUE
  /\ index = 0
  /\ lastAt = 0
  /\ now = 0
  /\ gret = Nil
  /\ gcaller = Nil

IdleImage ==
  /\ iframe = Jpeg(<<>>)
  /\ iowner = Nil
  /\ ilog = <<>>

IdleOpen ==
  /\ opath = <<>>
  /\ oenv = [ext |-> <<>>, exists |-> TRUE, decodes |-> TRUE, images |-> 1,
             ffmpeg |-> TRUE, starts |-> TRUE]
  /\ ores = <<>>

Init ==
  /\ ServerNew
  /\ portExternal \in BOOLEAN
  /\ srcKind \in SourceKinds
  /\ IdleVideo
  /\ IdleGif
  /\ IdleImage
  /\ IdleOpen

Next ==
  \/ \E p \in Procs : StartLocked(p)
  \/ \E p \in Procs : StartListenAndServe(p)
  \/ \E p \in Procs : StartServeReturn(p)
  \/ \E p \in Procs : StopLocked(p)
  \/ \E p \in Procs : StopClose(p)
  \/ \E p \in Procs : StopShutdown(p)
  \/ DecoderExit

Spec == Init /\ [][Next]_vars

InitVideo ==
  IdleServer /\ NewVideoSource /\ IdleGif /\ IdleImage /\ IdleOpen

NextVideo ==
  \/ \E c \in Clients : StreamSelectTick(c)
  \/ \E c \in Clients : NextFrameEnter(c)
  \/ NextFrameReadFF
  \/ NextFrameReadSOI
  \/ NextFrameReadBody

SpecVideo == InitVideo /\ [][NextVideo]_vars

InitStream ==
  IdleServer /\ NewVideoStream /\ IdleGif /\ IdleImage /\ IdleOpen

NextStream ==
  \/ \E c \in Clients : StreamSelectTick(c)
  \/ \E c \in Clients : StreamSelectDone(c)
  \/ \E c \in Clients : ClientDisconnect(c)
  \/ \E c \in Clients : NextFrameEnter(c)
  \/ NextFrameReadFF
  \/ NextFrameReadSOI
  \/ NextFrameReadBody
  \/ DecoderWrite
  \/ DecoderClosePipe

SpecStream == InitStream /\ [][NextStream]_vars

\* The goroutine of every connection is scheduled, sync.Mutex hands the
\* lock to every waiter, a read returns once it can, and a select whose
\* Done case is ready again and again takes it.  The decoder, started by
\* spawn with -stream_loop -1 (lines 269-278), does not stall: it goes on
\* writing, or it exits.  Nothing makes a client disconnect.
FairStream ==
  /\ \A c \in Clients : SF_vars(StreamSelectDone(c))
  /\ \A c \in Clients : SF_vars(NextFrameEnter(c))
  /\ WF_vars(NextFrameReadFF)
  /\ WF_vars(NextFrameReadSOI)
  /\ WF_vars(NextFrameReadBody)
  /\ WF_vars(DecoderWrite \/ DecoderClosePipe)

SpecStreamFair == InitStream /\ [][NextStream]_vars /\ FairStream

\* clients streaming from a video source while Stop is called on the
\* session
NextStop ==
  \/ NextStream
  \/ StreamStopLocked
  \/ StreamStopClose
  \/ StreamStopShutdown

SpecStop == InitStream /\ [][NextStop]_vars

\* As FairStream for the goroutines of the program, Stop's included once
\* it has been called: sync.Mutex hands the lock to a waiting Close when
\* it is released again and again.  The decoder is another program:
\* nothing makes it write or exit.
FairStop ==
  /\ \A c \in Clients : SF_vars(StreamSelectDone(c))
  /\ \A c \in Clients : SF_vars(NextFrameEnter(c))
  /\ WF_vars(NextFrameReadFF)
  /\ WF_vars(NextFrameReadSOI)
  /\ WF_vars(NextFrameReadBody)
  /\ SF_vars(StreamStopClose)
  /\ WF_vars(StreamStopShutdown)

SpecStopFair == InitStream /\ [][NextStop]_vars /\ FairStop

InitGif ==
  IdleServer /\ IdleVideo /\ NewGIFSource /\ IdleImage /\ IdleOpen

NextGif ==
  \/ \E c \in Callers : GifNextFrame(c)
  \/ Tick

SpecGif == InitGif /\ [][NextGif]_vars

InitImage ==
  IdleServer /\ IdleVideo /\ IdleGif /\ NewImageSource /\ IdleOpen

NextImage ==
  \/ \E c \in Callers : ImageNextFrameLock(c)
  \/ \E c \in Callers : ImageNextFrameReturn(c)

SpecImage == InitImage /\ [][NextImage]_vars

InitOpen ==
  IdleServer /\ IdleVideo /\ IdleGif /\ IdleImage /\ OpenInputs

NextOpen == OpenCall

SpecOpen == InitOpen /\ [][NextOpen]_vars

\* ============================================================== claims
\* a Stop call that found the session running and has returned
StopRan(p) == op[p] = "Stop" /\ pc[p] = "Done" /\ stopSrv[p] # Nil

\* a Start call that is past the running check and whose run no Stop has
\* cancelled
PastCheck(p) ==
  op[p] = "Start" /\ pc[p] \in {"StartListen", "StartServing"}
                  /\ ~ctxCancelled[p]

sessionVars == <<started, httpSrv, cancel, ctxCancelled, inShutdown,
                 listening, stdoutClosed, procState, closeCalls>>

\* C1: every Stop that found the session running and has returned has
\* invoked both the source close and the listener shutdown, also when the
\* close returned an error.
C1_StopAttemptsBoth ==
  \A p \in Procs :
    StopRan(p) => closeRes[p] # "none" /\ shutRes[p] # "none"

\* C2: over a stream of two complete JPEGs read in arbitrary chunks, the
\* first NextFrame returns the first JPEG and the second NextFrame returns
\* the second JPEG, both byte-exact.
C2_TwoFramesInOrder ==
  (vprefix = <<>> /\ vcut = 0) =>
    /\ Len(vout) >= 1 => vout[1] = FrameOk(j1)
    /\ Len(vout) >= 2 => vout[2] = FrameOk(j2)

\* C3: a Start that finds the session running returns AlreadyRunning and
\* leaves the flag, the server, the cancel function and the source as they
\* were; a Start gets past the check only when the flag is clear and sets
\* it in the same critical section, so at no time are two Start calls past
\* the check for a run that has not been stopped.
C3_StartWhileRunning ==
  /\ [](Cardinality({p \in Procs : PastCheck(p)}) <= 1)
  /\ [][\A p \in Procs :
          (pc[p] = "Idle" /\ op'[p] = "Start") =>
            IF started
              THEN /\ pc'[p] = "Done"
                   /\ ret'[p] = "AlreadyRunning"
                   /\ UNCHANGED sessionVars
              ELSE /\ started'
                   /\ httpSrv' = p
                   /\ pc'[p] = "StartListen"]_vars

C3_Witness ==
  \E p, q \in Procs :
    /\ op[p] = "Start" /\ ret[p] = "AlreadyRunning"
    /\ pc[q] = "StartServing" /\ httpSrv = q /\ started

\* C4: a Start on a session that was started and then stopped (a server is
\* installed and the flag is clear) returns an error at once and does not
\* set the session running again.
C4_RestartFails ==
  [][\A p \in Procs :
       (pc[p] = "Idle" /\ op'[p] = "Start" /\ httpSrv # Nil /\ ~started) =>
         /\ ~started'
         /\ pc'[p] = "Done"
         /\ ret'[p] \notin {"none", "ok"}]_vars

\* C5: once a Stop that found the session running has returned, no
\* listener of the session accepts connections on the port.
C5_StoppedNotListening ==
  (\E p \in Procs : StopRan(p)) => \A q \in Procs : ~listening[q]

\* C6: whenever IsRunning reports true, GET /health is served.
C6_RunningServesHealth == IsRunning => HealthServed

\* C7: a Stop that finds the session not running returns success at once
\* and changes neither the flag, the context, the source nor a listener.
C7_StopNotRunningNoEffect ==
  [][\A p \in Procs :
       (pc[p] = "Idle" /\ op'[p] = "Stop" /\ ~started) =>
         /\ pc'[p] = "Done"
         /\ ret'[p] = "ok"
         /\ stopSrv'[p] = Nil
         /\ UNCHANGED sessionVars]_vars

C7_Witness ==
  \E p, q \in Procs :
    /\ StopRan(q)
    /\ op[p] = "Stop" /\ pc[p] = "Done" /\ stopSrv[p] = Nil /\ ret[p] = "ok"
    /\ closeCalls = 1 /\ ~started

\* C8: when a Stop that found the session running has returned, the run it
\* stopped (the server it captured is still the installed one) is marked
\* not running, whatever the close and the shutdown returned, and Stop
\* returned success exactly when neither of them failed.
C8_StopMarksNotRunning ==
  \A p \in Procs :
    StopRan(p) =>
      /\ httpSrv = stopSrv[p] => ~IsRunning
      /\ ret[p] = "ok" <=> (closeRes[p] = "ok" /\ shutRes[p] = "ok")
      /\ closeRes[p] = "err" => ret[p] = "CloseFault"
      /\ shutRes[p] = "err" => ret[p] = "ShutdownFault"

C8_Witness ==
  \E p \in Procs :
    /\ StopRan(p) /\ closeRes[p] = "err" /\ ret[p] = "CloseFault"
    /\ httpSrv = stopSrv[p] /\ ~IsRunning

\* C9: the index changes only by one step modulo the frame count, only in
\* a call at which the delay of the frame being left has elapsed since
\* lastAt, and the advance restarts the window (lastAt is set to the time
\* of the call or later), so a window sees at most one advance.
C9_AdvanceAfterDelay ==
  [][(index' # index \/ lastAt' # lastAt) =>
       /\ index' = (index + 1) % Len(frames)
       /\ now - lastAt >= frames[index + 1].delay
       /\ lastAt' >= now
       /\ lastAt' - lastAt >= frames[index + 1].delay]_vars

C9_Witness ==
  /\ Len(frames) >= 2
  /\ index = 0
  /\ lastAt >= frames[1].delay + frames[Len(frames)].delay

\* C10: the bytes a NextFrame call returns are those of the frame at the
\* index as the call leaves it.
C10_ReturnsCurrentFrame ==
  gret # Nil => gret = frames[index + 1].data

\* C11: a gifSource that newGIFSource returned has at least one frame, and
\* its index stays within 0..frameCount-1 over any NextFrame calls,
\* including the wrap at the last frame and a one-frame animation.
C11_IndexValid ==
  gopen => /\ Len(frames) >= 1
           /\ 0 <= index
           /\ index < Len(frames)

C11_Witness ==
  /\ gopen
  /\ index = 0
  /\ lastAt > 0
  /\ gret = frames[Len(frames)].data

\* C16: for a video-backed session the decoder process is no longer
\* running once a Stop that found the session running has returned, and
\* once a Start has returned a listen failure.
C16_DecoderTerminated ==
  srcKind = "video" =>
    \A p \in Procs :
      (StopRan(p) \/ (op[p] = "Start" /\ pc[p] = "Done"
                                      /\ ret[p] = "ListenFailure"))
        => procState # "running"

\* C17: a Close of the video source made when the decoder is no longer
\* running (it exited on its own, or an earlier Close killed it) returns
\* success and leaves the source closed as it was.
C17_CloseIdempotent ==
  [][\A p \in Procs :
       (srcKind = "video" /\ closeRes[p] = "none" /\ closeRes'[p] # "none"
          /\ procState # "running") =>
         /\ closeRes'[p] = "ok"
         /\ stdoutClosed'
         /\ procState' = procState]_vars

\* C18: all NextFrame calls on a static image source, from whatever
\* callers, return the same bytes, and no call changes the source's frame.
C18_StaticFrameIdentical ==
  /\ [](\A i, k \in 1..Len(ilog) : ilog[i].data = ilog[k].data)
  /\ [][iframe' = iframe]_vars

C18_Witness ==
  /\ Len(ilog) >= 2
  /\ ilog[1].by # ilog[2].by
  /\ iowner # Nil

\* the extension of the path, in lower case, is in the published list
Published ==
  \E i \in 1..Len(SupportedExtensions) : SupportedExtensions[i] = oenv.ext

\* C12: Open on a path that does not exist, with an extension of any
\* recognized class, fails with the file-open failure and returns no source.
C12_MissingFileRejected ==
  (ores # <<>> /\ Published /\ ~oenv.exists) =>
    /\ ores[1].err = "FileOpenFailure"
    /\ ores[1].src = "none"

FrameNo(r) == r.data[3]

\* C15: the clients of a video-backed session pull from one source with
\* one position: every frame any client gets is a frame of the decoder's
\* sequence, the frames handed out one after the other, to whichever
\* client, go strictly forward in that sequence, and no pull puts bytes
\* back into the stream.
C15_OneSharedSequence ==
  /\ [](\A i \in 1..Len(vout) :
          vout[i].ok => \E k \in 1..NumStreamFrames :
                          vout[i].data = Jpeg(<<k>>))
  /\ [](\A i, k \in 1..Len(vout) :
          (i < k /\ vout[i].ok /\ vout[k].ok)
            => FrameNo(vout[i]) < FrameNo(vout[k]))
  /\ [][Len(towrite') + Len(pipe') <= Len(towrite) + Len(pipe)]_vars

C15_Witness ==
  /\ Len(vout) >= 2
  /\ vout[1].ok /\ vout[2].ok
  /\ vto[1] # vto[2]
  /\ \E c \in Clients : cst[c] = "Select" /\ ~cctx[c]

\* C19: the frame NextFrame returns starts at the first start marker of
\* the stream not yet consumed: the first call on a stream of some prefix
\* followed by complete JPEGs returns the first JPEG.
C19_FirstStartMarker ==
  (Len(vout) >= 1 /\ vcut = 0) => vout[1] = FrameOk(j1)

\* C20: every NextFrame result is a complete frame (from a start marker to
\* the first end marker after it) or an error without bytes, and a call
\* that finds the stream at its end before it saw an end marker returns
\* the error.
C20_CompleteFrameOrError ==
  /\ [](\A i \in 1..Len(vout) :
          LET d == vout[i].data
          IN IF vout[i].ok
               THEN /\ Len(d) >= 4
                    /\ d[1] = FF /\ d[2] = SOI
                    /\ d[Len(d) - 1] = FF /\ d[Len(d)] = EOI
                    /\ \A k \in 1..(Len(d) - 2) :
                         ~(d[k] = FF /\ d[k + 1] = EOI)
               ELSE d = <<>>)
  /\ [][(vpc # "Idle" /\ vpc' # vpc /\ pipe = <<>> /\ ~wopen) =>
          /\ Len(vout') = Len(vout) + 1
          /\ ~vout'[Len(vout')].ok]_vars

C20_Witness ==
  /\ Len(vout) >= 2
  /\ vout[1].ok
  /\ ~vout[2].ok
  /\ vcut > 0
  /\ vprefix = <<>>

\* C22: an animated source never skips a frame.  Over the NextFrame calls
\* in the order they hold the lock, each call returns the frame the call
\* before it returned or that frame's successor modulo the frame count,
\* however much time passed in between, and a call moves the index by at
\* most one.
C22_NeverSkipsFrame ==
  [][/\ index' = index \/ index' = (index + 1) % Len(frames)
     /\ gret # Nil =>
          gret' = gret \/ gret' = frames[(gret % Len(frames)) + 1].data]_vars

\* a call returned frame 1 and advanced, and the clock has since run for
\* twice the delay of frame 2
C22_Witness ==
  /\ Len(frames) = 3
  /\ gret = frames[1].data
  /\ index = 1
  /\ now - lastAt >= 2 * frames[2].delay

\* C23: a Stop that found the session running cancels the streaming
\* context, then closes the source, then shuts the listener down: when its
\* source close begins the context of the run it stops is already
\* cancelled, and when its listener shutdown begins its source close has
\* been attempted.
C23_StopOrder ==
  [][\A p \in Procs :
       /\ closeRes'[p] # closeRes[p] =>
            stopSrv[p] # Nil /\ ctxCancelled[stopSrv[p]]
       /\ shutRes'[p] # shutRes[p] => closeRes[p] # "none"
       /\ inShutdown'[p] # inShutdown[p] =>
            \E q \in Procs : stopSrv[q] = p /\ closeRes[q] # "none"]_vars

C23_Witness ==
  \E p \in Procs :
    /\ StopRan(p)
    /\ ctxCancelled[stopSrv[p]]
    /\ closeRes[p] = "ok"
    /\ shutRes[p] # "none"
    /\ inShutdown[stopSrv[p]]

\* Start calls that got past the running check: the starts of the session
Starts ==
  {p \in Procs : op[p] = "Start" /\ ~(pc[p] = "Done" /\
                                        ret[p] = "AlreadyRunning")}

\* Stop calls that found the session running and went on to the cleanup
Cleanups == {p \in Procs : op[p] = "Stop" /\ stopSrv[p] # Nil}

\* C26: over any interleaving of Stop calls, with or without Start calls
\* among them, the source is closed and the context cancelled at most once
\* per start of the session: of the Stop calls on one run exactly one does
\* the cleanup, and the others return success without touching the source.
C26_CleanupOncePerStart ==
  /\ [](closeCalls <= Cardinality(Cleanups))
  /\ [](Cardinality(Cleanups) <= Cardinality(Starts))
  /\ [](\A p, q \in Cleanups : stopSrv[p] = stopSrv[q] => p = q)
  /\ [](\A p \in Procs :
          (op[p] = "Stop" /\ pc[p] = "Done" /\ stopSrv[p] = Nil) =>
            ret[p] = "ok" /\ closeRes[p] = "none")
  /\ [][\A p \in Procs :
          (pc[p] = "Idle" /\ pc'[p] = "StopClose") =>
            ~ctxCancelled[cancel] /\ ctxCancelled'[cancel]]_vars

C26_Witness ==
  \E p, q \in Procs :
    /\ op[p] = "Stop" /\ pc[p] = "Done" /\ stopSrv[p] # Nil
    /\ op[q] = "Stop" /\ pc[q] = "Done" /\ stopSrv[q] = Nil
    /\ closeCalls = 1
    /\ Cardinality(Starts) = 1

\* C25: once Start has returned the listen error, and no later Start has
\* replaced the server it made, the session is not running.
C25_ListenFailureNotRunning ==
  \A p \in Procs :
    (op[p] = "Start" /\ pc[p] = "Done" /\ ret[p] = "ListenFailure"
       /\ httpSrv = p) => ~IsRunning

\* C21: the source lock is not held while NextFrame waits for decoder
\* output: a Close that Stop has issued gets the lock while a read is
\* blocked, so the Stop completes even if the decoder writes nothing more.
C21_CloseNotBlockedByPull ==
  /\ []((spc = "Close" /\ vpc # "Idle" /\ ~ReadReturns) => vowner = Nil)
  /\ (spc = "Close") ~> (spc = "Done")

\* C24: no client loop begins a frame pull once Close has closed the
\* source: neither does the select take the tick, nor does a call of
\* NextFrame take the source lock.
C24_NoPullAfterClose ==
  [][\A c \in Clients :
       /\ (cst[c] = "Select" /\ cst'[c] = "Pull") => ~vclosed
       /\ (vowner # c /\ vowner' = c) => ~vclosed]_vars

====
